---------------------------- MODULE Spec2Model ----------------------------
(***************************************************************************)
(* Model of rev-finder-web-scraper: extractRevenueFigure and the backend   *)
(* service's processCSVData, scrapeUrlForRevenue and makeRequestWithRetry  *)
(* (src/src/components/ResultsTable.tsx); formatCurrencyToUSD, parseCSV,   *)
(* toCSV and the Index page (src/src/utils/csvUtils.ts).                   *)
(*                                                                         *)
(* A JavaScript string is a sequence of one-character strings; positions   *)
(* handed between operators are 0-based, as in the source.  A number is a  *)
(* decimal kept exactly while its magnitude is below 2^53 and rounded to   *)
(* the nearest double (ties to even) from 2^53 on, where a double no       *)
(* longer holds every integer.  An async function is one action per        *)
(* stretch between two awaits.                                             *)
(***************************************************************************)
EXTENDS Integers, Sequences, FiniteSets, TLC

VARIABLES
  pc,       \* position of the run: "loop", "override", "format", "done"
  text,     \* extractRevenueFigure's argument (<<>> when the run has none)
  i,        \* index into monetaryPatterns of the pattern tried next
  decided,  \* pattern whose match was returned; 0: none
  rejected, \* patterns whose match failed the contextual gate
  figure,   \* extractRevenueFigure's return value (<<>> before it returns)
  value,    \* the string formatCurrencyToUSD is applied to next
  path,     \* the branch the last formatCurrencyToUSD call returned from
  calls     \* number of formatCurrencyToUSD calls made so far

\* one processCSVData run of the backend service, with the scrape of the
\* current row and its makeRequestWithRetry call
VARIABLES
  bpc,         \* position: "off", "begin", "row", "attempt", "sleeping",
               \* "fetching", "json", "returned"
  rows,        \* the caller's table
  outputRows,  \* processCSVData's outputRows
  rowIndex,    \* processCSVData's i
  requestUrl,  \* scrapeUrlForRevenue's url after the scheme is put before it
  attempt,     \* makeRequestWithRetry's attempt
  sleeps,      \* the delays slept in the current makeRequestWithRetry call
  fetchLog,    \* how each fetch of the current call ended ("pending" if not yet)
  lastScrape,  \* how the last scrapeUrlForRevenue call settled
  rowLog,      \* per handled data row: what onProgress and the scrape gave
  progressLog, \* the onProgress calls made
  inFlight     \* scrapeUrlForRevenue calls started and not settled

\* a table written by toCSV and read back by parseCSV
VARIABLES
  cpc,      \* position: "off", "table", "text", "parsed"
  table,    \* the rows handed to toCSV
  csvText,  \* what toCSV returned
  parsed    \* what parseCSV returned for it

\* the Index page: its React state, the handleProcess runs started on it and
\* what handleDownload last saw
VARIABLES
  status, progress, currentUrl, csvFile, processedUrls, totalUrls, results,
  processedData, error,
  runs,         \* per run: where it is, its file, its rows and outputRows, its i
  lastDownload  \* the processedData handleDownload last ran with

extractVars == <<pc, text, i, decided, rejected, figure, value, path, calls>>

batchVars ==
  <<bpc, rows, outputRows, rowIndex, requestUrl, attempt, sleeps, fetchLog,
    lastScrape, rowLog, progressLog, inFlight>>

csvVars == <<cpc, table, csvText, parsed>>

pageVars ==
  <<status, progress, currentUrl, csvFile, processedUrls, totalUrls, results,
    processedData, error, runs, lastDownload>>

vars == <<extractVars, batchVars, csvVars, pageVars>>

\* no extraction or formatting run
ExtractOff ==
  /\ pc = "done"
  /\ text = <<>>
  /\ i = 1
  /\ decided = 0
  /\ rejected = {}
  /\ figure = <<>>
  /\ value = <<>>
  /\ path = "none"
  /\ calls = 0

\* what response.json() gives when it gives nothing
NoBody == [null |-> FALSE, has |-> FALSE, revenue |-> <<>>]

NoScrape ==
  [settled |-> FALSE, rejected |-> FALSE, value |-> <<>>, threw |-> FALSE,
   body |-> NoBody]

\* no processCSVData run
BatchOff ==
  /\ bpc = "off"
  /\ rows = <<>>
  /\ outputRows = <<>>
  /\ rowIndex = 0
  /\ requestUrl = <<>>
  /\ attempt = 0
  /\ sleeps = <<>>
  /\ fetchLog = <<>>
  /\ lastScrape = NoScrape
  /\ rowLog = <<>>
  /\ progressLog = <<>>
  /\ inFlight = 0

\* the variables the extraction and formatting runs leave alone
besideExtract == <<batchVars, csvVars, pageVars>>

\* the variables a processCSVData run leaves alone
besideBatch == <<extractVars, csvVars, pageVars>>

\* no table written or read
CsvOff ==
  /\ cpc = "off"
  /\ table = <<>>
  /\ csvText = <<>>
  /\ parsed = <<>>

\* the variables toCSV and parseCSV leave alone
besideCsv == <<extractVars, batchVars, pageVars>>

\* no page
PageOff ==
  /\ status = "idle"
  /\ progress = [num |-> 0, den |-> 1]
  /\ currentUrl = <<>>
  /\ csvFile = "none"
  /\ processedUrls = 0
  /\ totalUrls = 0
  /\ results = <<>>
  /\ processedData = <<>>
  /\ error = ""
  /\ runs = <<>>
  /\ lastDownload = [clicked |-> FALSE, data |-> <<>>, csv |-> <<>>]

\* the variables the page leaves alone
besidePage == <<extractVars, batchVars, csvVars>>

-----------------------------------------------------------------------------
(* Characters and strings *)

EUR == "€"
GBP == "£"
JPY == "¥"
USD == "$"

NotFound == <<"N", "o", "t", " ", "F", "o", "u", "n", "d">>

DigitChars == {"0", "1", "2", "3", "4", "5", "6", "7", "8", "9"}

DigitVal ==
  [c \in DigitChars |->
     CASE c = "0" -> 0 [] c = "1" -> 1 [] c = "2" -> 2 [] c = "3" -> 3
       [] c = "4" -> 4 [] c = "5" -> 5 [] c = "6" -> 6 [] c = "7" -> 7
       [] c = "8" -> 8 [] c = "9" -> 9]

DigitChar == <<"0", "1", "2", "3", "4", "5", "6", "7", "8", "9">>

UpperToLower ==
  [A |-> "a", B |-> "b", C |-> "c", D |-> "d", E |-> "e", F |-> "f",
   G |-> "g", H |-> "h", I |-> "i", J |-> "j", K |-> "k", L |-> "l",
   M |-> "m", N |-> "n", O |-> "o", P |-> "p", Q |-> "q", R |-> "r",
   S |-> "s", T |-> "t", U |-> "u", V |-> "v", W |-> "w", X |-> "x",
   Y |-> "y", Z |-> "z"]

LowerChar(c) == IF c \in DOMAIN UpperToLower THEN UpperToLower[c] ELSE c

toLowerCase(s) == [k \in 1..Len(s) |-> LowerChar(s[k])]

Min(S) == CHOOSE m \in S : \A n \in S : m <= n

Max2(a, b) == IF a >= b THEN a ELSE b

Min2(a, b) == IF a <= b THEN a ELSE b

\* String.prototype.indexOf: 0-based position of the first occurrence, -1 if none
indexOf(s, sub) ==
  LET at == {k \in 0..(Len(s) - Len(sub)) :
                \A j \in 1..Len(sub) : s[k + j] = sub[j]}
  IN  IF at = {} THEN -1 ELSE Min(at)

includes(s, sub) == indexOf(s, sub) # -1

\* String.prototype.substring(a, b) for 0 <= a <= b <= length
substring(s, a, b) == SubSeq(s, a + 1, b)

\* [\d,.]
IsAmountChar(c) == c \in DigitChars \cup {",", "."}

\* \s
IsSpace(c) == c \in {" ", "\t", "\n", "\r"}

\* 1-based position after the longest run of [\d,.] that starts at p
RECURSIVE AmountEnd(_, _)
AmountEnd(s, p) ==
  IF p <= Len(s) /\ IsAmountChar(s[p]) THEN AmountEnd(s, p + 1) ELSE p

\* 1-based position after the longest run of \s that starts at p
RECURSIVE SpaceEnd(_, _)
SpaceEnd(s, p) ==
  IF p <= Len(s) /\ IsSpace(s[p]) THEN SpaceEnd(s, p + 1) ELSE p

\* whether word w (lower case) occurs at 1-based position p of s, ignoring case
WordAt(s, p, w) ==
  /\ p + Len(w) - 1 <= Len(s)
  /\ \A k \in 1..Len(w) : LowerChar(s[p + k - 1]) = w[k]

\* an alternation (w1|w2|...): the index of the first alternative that
\* matches at p, 0 if none does
FirstAlt(alts, s, p) ==
  LET ok == {a \in 1..Len(alts) : WordAt(s, p, alts[a])}
  IN  IF ok = {} THEN 0 ELSE Min(ok)

million  == <<"m", "i", "l", "l", "i", "o", "n">>
billion  == <<"b", "i", "l", "l", "i", "o", "n">>
trillion == <<"t", "r", "i", "l", "l", "i", "o", "n">>

\* (million|billion|trillion|m|b|t)
ScaleAlts == <<million, billion, trillion, <<"m">>, <<"b">>, <<"t">>>>

\* (million|billion|trillion)
FullScaleAlts == <<million, billion, trillion>>

-----------------------------------------------------------------------------
(* Numbers.  A natural number is its sequence of decimal digits, most       *)
(* significant first, without leading zeros (zero is <<0>>).               *)

RECURSIVE Trim(_)
Trim(d) ==
  IF Len(d) > 1 /\ d[1] = 0 THEN Trim(Tail(d))
  ELSE IF d = <<>> THEN <<0>> ELSE d

Zeros(n) == [k \in 1..n |-> 0]

\* d * m for a small natural m
RECURSIVE MulCarry(_, _, _, _)
MulCarry(d, m, k, carry) ==
  IF k = 0
  THEN IF carry = 0 THEN <<>> ELSE MulCarry(<<>>, m, 0, carry \div 10) \o <<carry % 10>>
  ELSE LET p == d[k] * m + carry
       IN  MulCarry(d, m, k - 1, p \div 10) \o <<p % 10>>

MulSmall(d, m) == Trim(MulCarry(d, m, Len(d), 0))

\* d divided by a small natural m: quotient q and remainder r
RECURSIVE DivCarry(_, _, _, _)
DivCarry(d, m, k, rem) ==
  IF k > Len(d) THEN [q |-> <<>>, r |-> rem]
  ELSE LET cur  == rem * 10 + d[k]
           rest == DivCarry(d, m, k + 1, cur % m)
       IN  [q |-> <<cur \div m>> \o rest.q, r |-> rest.r]

DivSmall(d, m) ==
  LET x == DivCarry(d, m, 1, 0) IN [q |-> Trim(x.q), r |-> x.r]

RECURSIVE Inc(_)
Inc(d) ==
  IF d = <<>> THEN <<1>>
  ELSE IF d[Len(d)] < 9 THEN SubSeq(d, 1, Len(d) - 1) \o <<d[Len(d)] + 1>>
  ELSE Inc(SubSeq(d, 1, Len(d) - 1)) \o <<0>>

RECURSIVE LexLess(_, _, _)
LexLess(a, b, k) ==
  IF k > Len(a) THEN FALSE
  ELSE IF a[k] # b[k] THEN a[k] < b[k]
  ELSE LexLess(a, b, k + 1)

Less(a, b) ==
  IF Len(a) # Len(b) THEN Len(a) < Len(b) ELSE LexLess(a, b, 1)

IsOdd(d) == d[Len(d)] % 2 = 1

NonZero(d) == \E k \in 1..Len(d) : d[k] # 0

\* 2^53 = 9007199254740992: from here on a double holds only multiples of a
\* power of two
Two53 == <<9, 0, 0, 7, 1, 9, 9, 2, 5, 4, 7, 4, 0, 9, 9, 2>>

RECURSIVE Pow2Mul(_, _)
Pow2Mul(d, k) == IF k = 0 THEN d ELSE Pow2Mul(MulSmall(d, 2), k - 1)

\* m * 2^k plus the bits shifted out so far (rnd: the last one, sticky: any
\* before it), rounded to a 53-bit mantissa, ties to even
RECURSIVE RoundMantissa(_, _, _, _)
RoundMantissa(m, k, rnd, sticky) ==
  IF Less(m, Two53)
  THEN LET up == rnd /\ (sticky \/ IsOdd(m))
       IN  Pow2Mul(IF up THEN Inc(m) ELSE m, k)
  ELSE LET h == DivSmall(m, 2)
       IN  RoundMantissa(h.q, k + 1, h.r = 1, sticky \/ rnd)

NaN == [nan |-> TRUE, int |-> <<0>>, frac |-> <<>>, den |-> 1]

\* the number int.frac / den
Num(int, frac, den) == [nan |-> FALSE, int |-> int, frac |-> frac, den |-> den]

\* the double nearest to a number: itself below 2^53
ToDouble(x) ==
  IF x.nan THEN x
  ELSE LET qr == DivSmall(x.int, x.den)
       IN  IF Less(qr.q, Two53) THEN x
           ELSE Num(RoundMantissa(qr.q, 0, FALSE, qr.r # 0 \/ NonZero(x.frac)),
                    <<>>, 1)

\* x * 10^k
TimesPow10(x, k) ==
  IF x.nan THEN x
  ELSE IF Len(x.frac) >= k
       THEN ToDouble(Num(Trim(x.int \o SubSeq(x.frac, 1, k)),
                         SubSeq(x.frac, k + 1, Len(x.frac)), x.den))
       ELSE ToDouble(Num(Trim(x.int \o x.frac \o Zeros(k - Len(x.frac))),
                         <<>>, x.den))

\* x * m / 10 for a small natural m (1.1 is 11/10, 1.3 is 13/10)
TimesTenths(x, m) ==
  IF x.nan THEN x
  ELSE LET e == Len(x.frac) + 1
           p == MulSmall(x.int \o x.frac, m)
           padded == IF Len(p) <= e THEN Zeros(e + 1 - Len(p)) \o p ELSE p
           cut == Len(padded) - e
       IN  ToDouble(Num(Trim(SubSeq(padded, 1, cut)),
                        SubSeq(padded, cut + 1, Len(padded)), x.den))

\* x / m for a small natural m
DividedBy(x, m) == IF x.nan THEN x ELSE ToDouble(Num(x.int, x.frac, x.den * m))


-----------------------------------------------------------------------------
(* formatCurrencyToUSD *)

\* numericMatch[1].replace(/,/g, '')
stripCommas(s) == SelectSeq(s, LAMBDA c : c # ",")

\* 1-based position after the longest run of digits that starts at p
RECURSIVE DigitsEnd(_, _)
DigitsEnd(s, p) ==
  IF p <= Len(s) /\ s[p] \in DigitChars THEN DigitsEnd(s, p + 1) ELSE p

DigitVals(s) == [k \in 1..Len(s) |-> DigitVal[s[k]]]

\* parseFloat of a string of digits and periods: the longest prefix that is
\* a decimal literal (digits, then at most one period and digits), NaN when
\* that prefix holds no digit
parseFloat(s) ==
  LET a == DigitsEnd(s, 1)
      b == IF a <= Len(s) /\ s[a] = "." THEN DigitsEnd(s, a + 1) ELSE a
      intPart  == SubSeq(s, 1, a - 1)
      fracPart == IF b > a THEN SubSeq(s, a + 1, b - 1) ELSE <<>>
  IN  IF intPart = <<>> /\ fracPart = <<>> THEN NaN
      ELSE ToDouble(Num(Trim(DigitVals(intPart)), DigitVals(fracPart), 1))

\* value.match(/([\d,.]+)\s*(million|billion|trillion|m|b|t)?/i): the
\* leftmost run of [\d,.], and the scale after it when there is one
numericMatch(v) ==
  LET starts == {p \in 1..Len(v) : IsAmountChar(v[p])}
      p  == Min(starts)
      b  == AmountEnd(v, p)
      c  == SpaceEnd(v, b)
      sc == FirstAlt(ScaleAlts, v, c)
  IN  IF starts = {} THEN [found |-> FALSE, m1 |-> <<>>, m2 |-> <<>>]
      ELSE [found |-> TRUE,
            m1 |-> SubSeq(v, p, b - 1),
            m2 |-> IF sc = 0 THEN <<>> ELSE SubSeq(v, c, c + Len(ScaleAlts[sc]) - 1)]

\* applyScale with the billion branch multiplying as the million branch does
applyScaleBillionAsMillion(x, scale) ==
  IF scale = million \/ scale = <<"m">> THEN TimesPow10(x, 6)
  ELSE IF scale = billion \/ scale = <<"b">> THEN TimesPow10(x, 6)
  ELSE IF scale = trillion \/ scale = <<"t">> THEN TimesPow10(x, 12)
  ELSE x

\* the scaling branch: numericValue *= 1000000 | 1000000000 | 1000000000000
applyScale(x, scale) ==
  IF scale = million \/ scale = <<"m">> THEN TimesPow10(x, 6)
  ELSE IF scale = billion \/ scale = <<"b">> THEN TimesPow10(x, 9)
  ELSE IF scale = trillion \/ scale = <<"t">> THEN TimesPow10(x, 12)
  ELSE x

\* applyConversion with the pound tested before the euro
applyConversionPoundFirst(x, v) ==
  IF includes(v, <<GBP>>) THEN TimesTenths(x, 13)
  ELSE IF includes(v, <<EUR>>) THEN TimesTenths(x, 11)
  ELSE IF includes(v, <<JPY>>) THEN DividedBy(x, 150)
  ELSE x

\* the conversion branch, decided by the symbols in the whole input
applyConversion(x, v) ==
  IF includes(v, <<EUR>>) THEN TimesTenths(x, 11)
  ELSE IF includes(v, <<GBP>>) THEN TimesTenths(x, 13)
  ELSE IF includes(v, <<JPY>>) THEN DividedBy(x, 150)
  ELSE x

RECURSIVE Group(_)
Group(s) ==
  IF Len(s) <= 3 THEN s
  ELSE Group(SubSeq(s, 1, Len(s) - 3)) \o <<",">> \o SubSeq(s, Len(s) - 2, Len(s))

\* x rounded to a whole number, halves away from zero (Intl's halfExpand)
RoundHalfExpand(x) ==
  LET qr == DivSmall(x.int, x.den)
      up == IF x.den = 1 THEN x.frac # <<>> /\ x.frac[1] >= 5
            ELSE 2 * qr.r >= x.den
  IN  IF up THEN Inc(qr.q) ELSE qr.q

\* Intl.NumberFormat('en-US', {style: 'currency', currency: 'USD',
\* maximumFractionDigits: 0, minimumFractionDigits: 0}).format
formatter(x) ==
  IF x.nan THEN <<"$", "N", "a", "N">>
  ELSE LET n == RoundHalfExpand(x)
       IN  <<"$">> \o Group([k \in 1..Len(n) |-> DigitChar[n[k] + 1]])

\* formatCall without its first branch
formatCallNoSentinel(v) ==
  LET nm == numericMatch(v)
  IN  IF ~nm.found THEN [out |-> v, path |-> "nomatch"]
      ELSE LET numericValue == parseFloat(stripCommas(nm.m1))
               scale        == toLowerCase(nm.m2)
           IN  [out  |-> formatter(applyConversion(applyScale(numericValue, scale), v)),
                path |-> "formatted"]

\* one call of formatCurrencyToUSD: what it returns and the branch it
\* returns from.  Nothing in the try block can throw on a string, so the
\* catch branch has no path here.
formatCall(v) ==
  IF v = NotFound THEN [out |-> v, path |-> "sentinel"]
  ELSE LET nm == numericMatch(v)
       IN  IF ~nm.found THEN [out |-> v, path |-> "nomatch"]
           ELSE LET numericValue == parseFloat(stripCommas(nm.m1))
                    scale        == toLowerCase(nm.m2)
                IN  [out  |-> formatter(applyConversion(applyScale(numericValue, scale), v)),
                     path |-> "formatted"]

formatCurrencyToUSD(v) == formatCall(v).out

-----------------------------------------------------------------------------
(* extractRevenueFigure *)

\* financialKeywords without the three scale words
financialKeywordsNoScales ==
  <<<<"r", "e", "v", "e", "n", "u", "e">>,
    <<"a", "n", "n", "u", "a", "l", " ", "r", "e", "v", "e", "n", "u", "e">>,
    <<"q", "u", "a", "r", "t", "e", "r", "l", "y", " ", "r", "e", "v", "e", "n", "u", "e">>,
    <<"s", "a", "l", "e", "s">>,
    <<"t", "u", "r", "n", "o", "v", "e", "r">>,
    <<"i", "n", "c", "o", "m", "e">>,
    <<"e", "a", "r", "n", "i", "n", "g", "s">>,
    <<"f", "i", "n", "a", "n", "c", "i", "a", "l", " ", "r", "e", "s", "u", "l", "t", "s">>,
    <<"f", "i", "n", "a", "n", "c", "i", "a", "l", " ", "h", "i", "g", "h", "l", "i", "g", "h", "t", "s">>,
    <<"f", "i", "s", "c", "a", "l", " ", "y", "e", "a", "r">>,
    <<"f", "y">>,
    <<"q", "1">>,
    <<"q", "2">>,
    <<"q", "3">>,
    <<"q", "4">>>>

financialKeywords ==
  <<<<"r", "e", "v", "e", "n", "u", "e">>,
    <<"a", "n", "n", "u", "a", "l", " ", "r", "e", "v", "e", "n", "u", "e">>,
    <<"q", "u", "a", "r", "t", "e", "r", "l", "y", " ", "r", "e", "v", "e", "n", "u", "e">>,
    <<"s", "a", "l", "e", "s">>,
    <<"t", "u", "r", "n", "o", "v", "e", "r">>,
    <<"i", "n", "c", "o", "m", "e">>,
    <<"e", "a", "r", "n", "i", "n", "g", "s">>,
    <<"f", "i", "n", "a", "n", "c", "i", "a", "l", " ", "r", "e", "s", "u", "l", "t", "s">>,
    <<"f", "i", "n", "a", "n", "c", "i", "a", "l", " ", "h", "i", "g", "h", "l", "i", "g", "h", "t", "s">>,
    <<"m", "i", "l", "l", "i", "o", "n">>,
    <<"b", "i", "l", "l", "i", "o", "n">>,
    <<"t", "r", "i", "l", "l", "i", "o", "n">>,
    <<"f", "i", "s", "c", "a", "l", " ", "y", "e", "a", "r">>,
    <<"f", "y">>,
    <<"q", "1">>,
    <<"q", "2">>,
    <<"q", "3">>,
    <<"q", "4">>>>

dollars == <<"d", "o", "l", "l", "a", "r", "s">>
usd     == <<"u", "s", "d">>

\* \s*(dollars|usd)
DollarsOrUsd == <<dollars, usd>>

\* \s*in revenue
InRevenue == <<<<"i", "n", " ", "r", "e", "v", "e", "n", "u", "e">>>>

\* a pattern: a literal prefix, ([\d,.]+), \s*, a scale alternation and,
\* for some, \s* and an alternation of suffixes; all matched ignoring case
Pattern(pre, scales, post) == [pre |-> pre, scales |-> scales, post |-> post]

\* monetaryPatterns with the dollars/usd form after the four symbol forms
monetaryPatternsSymbolsFirst ==
  <<Pattern(<<"$">>, ScaleAlts, <<>>),
    Pattern(<<EUR>>, ScaleAlts, <<>>),
    Pattern(<<GBP>>, ScaleAlts, <<>>),
    Pattern(<<JPY>>, ScaleAlts, <<>>),
    Pattern(<<>>, FullScaleAlts, DollarsOrUsd),
    Pattern(<<"r", "e", "v", "e", "n", "u", "e", " ", "o", "f", " ", "$">>, ScaleAlts, <<>>),
    Pattern(<<"r", "e", "v", "e", "n", "u", "e", " ", "o", "f", " ">>, FullScaleAlts, DollarsOrUsd),
    Pattern(<<"r", "e", "v", "e", "n", "u", "e", ":", " ", "$">>, ScaleAlts, <<>>),
    Pattern(<<"r", "e", "v", "e", "n", "u", "e", ":", " ">>, FullScaleAlts, DollarsOrUsd),
    Pattern(<<"r", "e", "v", "e", "n", "u", "e", " ", "w", "a", "s", " ", "$">>, ScaleAlts, <<>>),
    Pattern(<<"r", "e", "v", "e", "n", "u", "e", " ", "r", "e", "a", "c", "h", "e", "d", " ", "$">>, ScaleAlts, <<>>),
    Pattern(<<"t", "o", "t", "a", "l", " ", "r", "e", "v", "e", "n", "u", "e", " ", "o", "f", " ", "$">>, ScaleAlts, <<>>),
    Pattern(<<>>, FullScaleAlts, InRevenue)>>

monetaryPatterns ==
  <<Pattern(<<"$">>, ScaleAlts, <<>>),
    Pattern(<<>>, FullScaleAlts, DollarsOrUsd),
    Pattern(<<EUR>>, ScaleAlts, <<>>),
    Pattern(<<GBP>>, ScaleAlts, <<>>),
    Pattern(<<JPY>>, ScaleAlts, <<>>),
    Pattern(<<"r", "e", "v", "e", "n", "u", "e", " ", "o", "f", " ", "$">>, ScaleAlts, <<>>),
    Pattern(<<"r", "e", "v", "e", "n", "u", "e", " ", "o", "f", " ">>, FullScaleAlts, DollarsOrUsd),
    Pattern(<<"r", "e", "v", "e", "n", "u", "e", ":", " ", "$">>, ScaleAlts, <<>>),
    Pattern(<<"r", "e", "v", "e", "n", "u", "e", ":", " ">>, FullScaleAlts, DollarsOrUsd),
    Pattern(<<"r", "e", "v", "e", "n", "u", "e", " ", "w", "a", "s", " ", "$">>, ScaleAlts, <<>>),
    Pattern(<<"r", "e", "v", "e", "n", "u", "e", " ", "r", "e", "a", "c", "h", "e", "d", " ", "$">>, ScaleAlts, <<>>),
    Pattern(<<"t", "o", "t", "a", "l", " ", "r", "e", "v", "e", "n", "u", "e", " ", "o", "f", " ", "$">>, ScaleAlts, <<>>),
    Pattern(<<>>, FullScaleAlts, InRevenue)>>

NoMatch == [found |-> FALSE, index |-> -1, m0 |-> <<>>, m1 |-> <<>>, m2 |-> <<>>]

\* the match of pattern pat that starts at 1-based position p of s, if any.
\* The amount and the spaces are runs no shorter prefix of which lets the
\* rest match, so the greedy reading is the only one.
MatchAt(pat, s, p) ==
  LET a  == p + Len(pat.pre)
      b  == AmountEnd(s, a)
      c  == SpaceEnd(s, b)
      sc == FirstAlt(pat.scales, s, c)
      d  == c + Len(pat.scales[sc])
      e  == SpaceEnd(s, d)
      po == FirstAlt(pat.post, s, e)
      end == IF pat.post = <<>> THEN d ELSE e + Len(pat.post[po])
  IN  IF /\ WordAt(s, p, pat.pre)
         /\ b > a
         /\ sc # 0
         /\ (pat.post = <<>> \/ po # 0)
      THEN [found |-> TRUE, index |-> p - 1, m0 |-> SubSeq(s, p, end - 1),
            m1 |-> SubSeq(s, a, b - 1), m2 |-> SubSeq(s, c, d - 1)]
      ELSE NoMatch

\* text.match(pattern) giving the last match instead of the first
matchLast(s, pat) ==
  LET starts == {p \in 1..Len(s) : MatchAt(pat, s, p).found}
  IN  IF starts = {} THEN NoMatch
      ELSE MatchAt(pat, s, CHOOSE p \in starts : \A q \in starts : q <= p)

\* text.match(pattern) for a pattern without the g flag: the leftmost match
match(s, pat) ==
  LET starts == {p \in 1..Len(s) : MatchAt(pat, s, p).found}
  IN  IF starts = {} THEN NoMatch ELSE MatchAt(pat, s, Min(starts))

\* number of characters taken on each side of the match
ContextChars == 50

\* surroundingText taking the whole text
surroundingTextWhole(s, m) == s

surroundingText(s, m) ==
  LET at == indexOf(s, m.m0)
  IN  substring(s, Max2(0, at - ContextChars),
                   Min2(Len(s), at + Len(m.m0) + ContextChars))

hasRevenueContext(s, m) ==
  LET window == toLowerCase(surroundingText(s, m))
  IN  \E k \in 1..Len(financialKeywords) :
         includes(window, toLowerCase(financialKeywords[k]))

revenue == <<"r", "e", "v", "e", "n", "u", "e">>

\* gate that looks only at the window around the match
gateWindowOnly(s, m) == hasRevenueContext(s, m)

\* the condition under which a match is returned
gate(s, m) == hasRevenueContext(s, m) \/ includes(toLowerCase(s), revenue)

\* prefix with the euro tested before the dollar
prefixEuroFirst(s) ==
  IF includes(s, <<EUR>>) THEN <<EUR>>
  ELSE IF includes(s, <<USD>>) THEN <<USD>>
  ELSE IF includes(s, <<GBP>>) THEN <<GBP>>
  ELSE IF includes(s, <<JPY>>) THEN <<JPY>>
  ELSE <<>>

prefix(s) ==
  IF includes(s, <<USD>>) THEN <<USD>>
  ELSE IF includes(s, <<EUR>>) THEN <<EUR>>
  ELSE IF includes(s, <<GBP>>) THEN <<GBP>>
  ELSE IF includes(s, <<JPY>>) THEN <<JPY>>
  ELSE <<>>

\* display without lower-casing the scale
displayRawScale(s, m) == prefix(s) \o m.m1 \o <<" ">> \o m.m2

\* `${prefix}${amount} ${scale}`
display(s, m) == prefix(s) \o m.m1 \o <<" ">> \o toLowerCase(m.m2)

UnityReported == <<"U", "n", "i", "t", "y", " ", "r", "e", "p", "o", "r", "t", "e", "d">>
RevenueOf     == <<"r", "e", "v", "e", "n", "u", "e", " ", "o", "f">>
UnityFigure ==
  <<"U", "n", "i", "t", "y", ":", " ", "$", "4", "7", "2", " ", "m", "i", "l", "l", "i", "o", "n", " ", "(", "Q", "4", " ", "2", "0", "2", "4", ")", ",", " ", "$", "2", ".", "7", " ", "b", "i", "l", "l", "i", "o", "n", " ", "a", "n", "n", "u", "a", "l">>

\* what follows the loop: the Unity/IronSource special case, else "Not Found"
afterLoop(s) ==
  IF includes(s, UnityReported) /\ includes(s, RevenueOf) THEN UnityFigure
  ELSE NotFound


-----------------------------------------------------------------------------
(* The run: extractRevenueFigure's loop over monetaryPatterns, one pattern  *)
(* a step, then the special case after the loop, then formatCurrencyToUSD   *)
(* applied to the figure (once by processCSVData; again to re-apply it).    *)

\* PatternStep leaving the loop at the first pattern that matches, with
\* "Not Found" when its match fails the gate
PatternStepStopAtMatch(s, k) ==
  LET m == match(s, monetaryPatterns[k])
  IN  IF m.found
      THEN [ret |-> TRUE, out |-> IF gate(s, m) THEN display(s, m) ELSE NotFound,
            hit |-> TRUE]
      ELSE [ret |-> FALSE, out |-> <<>>, hit |-> FALSE]

\* one iteration of the loop on pattern k: whether it returns, what it
\* returns, and whether the pattern matched at all
PatternStep(s, k) ==
  LET m == match(s, monetaryPatterns[k])
  IN  IF m.found /\ gate(s, m)
      THEN [ret |-> TRUE, out |-> display(s, m), hit |-> TRUE]
      ELSE [ret |-> FALSE, out |-> <<>>, hit |-> m.found]

\* bounds of the model
MaxParts == 2
MaxCalls == 2
MaxAmountLen == 3

Filler(n) == [k \in 1..n |-> "x"]

Sales == <<" ", "s", "a", "l", "e", "s", " ">>

\* a keyword this far from a match lies just inside / just outside its window
NearLen == ContextChars - Len(Sales) + 1
FarLen  == NearLen + 1

UsdAbbrev      == <<"$", "5", " ", "m">>
EurAbbrev      == <<EUR, "8", " ", "b">>
EurBillion     == <<EUR, "1", ".", "5", " ", "B", "i", "l", "l", "i", "o", "n", " ">>
MillionDollars == <<"7", " ", "m", "i", "l", "l", "i", "o", "n", " ", "d", "o", "l", "l", "a", "r", "s">>
RevenueOfLead  == <<"r", "e", "v", "e", "n", "u", "e", " ", "o", "f", " ">>
UnityLead      == <<"U", "n", "i", "t", "y", " ", "r", "e", "p", "o", "r", "t", "e", "d", " ">>
GbpNoDigits    == <<GBP, ",", " ", "B">>
InRevenueForm  == <<"9", " ", "t", "r", "i", "l", "l", "i", "o", "n", " ", "i", "n", " ", "r", "e", "v", "e", "n", "u", "e">>
UsdMillion     == <<"$", "4", "7", "2", " ", "m", "i", "l", "l", "i", "o", "n", " ">>
UsdBillion     == <<"$", "2", ".", "7", " ", "b", "i", "l", "l", "i", "o", "n">>
JpyAbbrev      == <<JPY, "3", "0", "0", " ", "t">>

\* the pieces texts are put together from
Fragments ==
  { UsdAbbrev,
    UsdAbbrev \o Filler(NearLen),
    UsdAbbrev \o Filler(FarLen),
    Filler(NearLen) \o EurAbbrev,
    Filler(FarLen) \o EurAbbrev,
    Sales,
    MillionDollars,
    EurBillion,
    RevenueOfLead,
    UnityLead,
    GbpNoDigits,
    InRevenueForm,
    JpyAbbrev,
    UsdMillion,
    UsdBillion }

RECURSIVE Cat(_)
Cat(parts) == IF parts = <<>> THEN <<>> ELSE Head(parts) \o Cat(Tail(parts))

Texts ==
  UNION { {Cat(parts) : parts \in [1..n -> Fragments]} : n \in 1..MaxParts }

Init ==
  /\ pc = "loop"
  /\ text \in Texts
  /\ i = 1
  /\ decided = 0
  /\ rejected = {}
  /\ figure = <<>>
  /\ value = <<>>
  /\ path = "none"
  /\ calls = 0
  /\ BatchOff
  /\ CsvOff
  /\ PageOff

TryPattern ==
  /\ pc = "loop"
  /\ LET r == PatternStep(text, i)
     IN  IF r.ret
         THEN /\ figure' = r.out
              /\ value' = r.out
              /\ decided' = i
              /\ pc' = "format"
              /\ UNCHANGED <<i, rejected>>
         ELSE /\ i' = i + 1
              /\ rejected' = IF r.hit THEN rejected \cup {i} ELSE rejected
              /\ pc' = IF i = Len(monetaryPatterns) THEN "override" ELSE "loop"
              /\ UNCHANGED <<figure, value, decided>>
  /\ UNCHANGED <<text, path, calls>>
  /\ UNCHANGED besideExtract

AfterLoop ==
  /\ pc = "override"
  /\ figure' = afterLoop(text)
  /\ value' = afterLoop(text)
  /\ pc' = "format"
  /\ UNCHANGED <<text, i, decided, rejected, path, calls>>
  /\ UNCHANGED besideExtract

Format ==
  /\ pc = "format"
  /\ calls < MaxCalls
  /\ LET r == formatCall(value)
     IN  /\ value' = r.out
         /\ path' = r.path
  /\ calls' = calls + 1
  /\ UNCHANGED <<pc, text, i, decided, rejected, figure>>
  /\ UNCHANGED besideExtract

Next == TryPattern \/ AfterLoop \/ Format

Spec == Init /\ [][Next]_vars

-----------------------------------------------------------------------------
(* extractRevenueFigure on texts that hold a revenue phrase: the literal    *)
(* text that opens the general revenue statement patterns, in several       *)
(* letter cases, followed by a figure, with or without an earlier figure    *)
(* too far from the phrase for the phrase to lie in its window.             *)

PhraseLeads ==
  { <<"r", "e", "v", "e", "n", "u", "e", " ", "o", "f", " ">>,
    <<"r", "e", "v", "e", "n", "u", "e", ":", " ">>,
    <<"r", "e", "v", "e", "n", "u", "e", " ", "w", "a", "s", " ">>,
    <<"r", "e", "v", "e", "n", "u", "e", " ", "r", "e", "a", "c", "h", "e", "d", " ">>,
    <<"t", "o", "t", "a", "l", " ", "r", "e", "v", "e", "n", "u", "e", " ", "o", "f", " ">>,
    <<"R", "e", "v", "e", "n", "u", "e", " ", "O", "f", " ">>,
    <<"R", "E", "V", "E", "N", "U", "E", ":", " ">> }

PhraseTexts ==
  LET before == { <<>>,
                  UsdAbbrev \o Filler(FarLen),
                  Filler(FarLen) \o EurAbbrev \o Filler(FarLen),
                  JpyAbbrev \o <<" ">> }
      lead   == PhraseLeads \cup {<<>>}
      body   == { UsdAbbrev, UsdMillion, UsdBillion, MillionDollars,
                  <<"7", " ", "B", "i", "l", "l", "i", "o", "n", " ", "U", "S", "D">>,
                  EurAbbrev, InRevenueForm, GbpNoDigits,
                  <<"5", " ", "m">> }
      after  == { <<>>, Filler(FarLen) \o Sales, <<" ">> \o UsdBillion }
  IN  { b \o l \o f \o a : b \in before, l \in lead, f \in body, a \in after }

InitPhrases ==
  /\ pc = "loop"
  /\ text \in PhraseTexts
  /\ i = 1
  /\ decided = 0
  /\ rejected = {}
  /\ figure = <<>>
  /\ value = <<>>
  /\ path = "none"
  /\ calls = 0
  /\ BatchOff
  /\ CsvOff
  /\ PageOff

SpecPhrases == InitPhrases /\ [][Next]_vars

-----------------------------------------------------------------------------
(* formatCurrencyToUSD on its own, applied to display strings *)

SymbolPrefixes ==
  { <<>>, <<USD>>, <<EUR>>, <<GBP>>, <<JPY>>,
    <<GBP, EUR>>, <<JPY, GBP>>, <<USD, JPY>> }

AmountAlphabet == {"1", "5", ",", "."}

AmountTokens ==
  UNION { [1..n -> AmountAlphabet] : n \in 1..MaxAmountLen }

ScaleSuffixes ==
  { <<>>, <<" ", "m", "i", "l", "l", "i", "o", "n">>, <<"m">>, <<" ", "B", "i", "l", "l", "i", "o", "n">>, <<"B">>, <<" ", "t", "r", "i", "l", "l", "i", "o", "n">>, <<"T">>, <<" ", "x">> }

SpecialStrings ==
  { <<"N", "o", "t", " ", "F", "o", "u", "n", "d">>,
    <<"T", "B", "D">>,
    <<"N", ".", "A", ".">>,
    <<"$", "1", " ", "m", "i", "l", "l", "i", "o", "n">>,
    <<"$", "1", " ", "b", "i", "l", "l", "i", "o", "n">>,
    <<EUR, "1", "0", "0", " ", "m", "i", "l", "l", "i", "o", "n">>,
    <<GBP, "1", "0", "0", " ", "m", "i", "l", "l", "i", "o", "n">>,
    <<JPY, "1", "5", "0", "0", "0", " ", "m", "i", "l", "l", "i", "o", "n">>,
    <<"$", "1", ",", "0", "0", "0">>,
    <<"$", "1", ",", "2", "3", "4", ",", "5", "6", "7">>,
    <<"$", "9", ",", "0", "0", "7", ",", "1", "9", "9", ",", "2", "5", "4", ",", "7", "4", "0", ",", "9", "9", "2">>,
    <<"$", "9", ",", "0", "0", "7", ",", "1", "9", "9", ",", "2", "5", "4", ",", "7", "4", "0", ",", "9", "9", "3">>,
    <<"$", "1", "2", "0", "-", "1", "5", "0", "M", " ", "r", "e", "v", "e", "n", "u", "e">>,
    <<"R", "e", "v", "e", "n", "u", "e", ":", " ", "$", "2", "3", "0", " ", "m", "i", "l", "l", "i", "o", "n">>,
    <<EUR, "1", "2", ".", "3", "B">>,
    <<GBP, "8", "9", ".", "7", "M">>,
    <<"$", "5", " ", "m", "i", "n", "u", "t", "e", "s">>,
    UnityFigure }

DisplayStrings ==
  {sym \o amt \o suf : sym \in SymbolPrefixes, amt \in AmountTokens, suf \in ScaleSuffixes}
    \cup SpecialStrings

InitNormalize ==
  /\ pc = "format"
  /\ text = <<>>
  /\ i = 1
  /\ decided = 0
  /\ rejected = {}
  /\ figure \in DisplayStrings
  /\ value = figure
  /\ path = "none"
  /\ calls = 0
  /\ BatchOff
  /\ CsvOff
  /\ PageOff

NextNormalize == Format

SpecNormalize == InitNormalize /\ [][NextNormalize]_vars


-----------------------------------------------------------------------------
(* processCSVData of the backend service, with scrapeUrlForRevenue and     *)
(* makeRequestWithRetry                                                     *)

\* makeRequestWithRetry's default for maxRetries
maxRetries == 3

MaxDataRows == 2

WebCompanyRevenue ==
  <<"W", "e", "b", " ", "C", "o", "m", "p", "a", "n", "y", " ", "R", "e", "v", "e", "n", "u", "e">>

Http  == <<"h", "t", "t", "p">>
Https == <<"h", "t", "t", "p", "s", ":", "/", "/">>

startsWith(s, pre) == Len(s) >= Len(pre) /\ SubSeq(s, 1, Len(pre)) = pre

HeaderRow == << <<"u", "r", "l">>, <<"n", "a", "m", "e">> >>

\* the k-th data row: the first one's URL has its scheme, the others' have not
DataRow(k) ==
  IF k = 1 THEN << Http \o <<":", "/", "/", "a", ".", "c", "o">>, <<"A">> >>
  ELSE << <<"s", DigitChar[k + 1], ".", "c", "o">>, <<>> >>

\* the tables processCSVData is called with: none, a header, a header and rows
Tables ==
  {<<>>} \cup { <<HeaderRow>> \o [k \in 1..n |-> DataRow(k)] : n \in 0..MaxDataRows }

\* what response.json() can give: null, an object without revenue, with an
\* empty one, with a figure
Bodies ==
  { [null |-> TRUE,  has |-> FALSE, revenue |-> <<>>],
    [null |-> FALSE, has |-> FALSE, revenue |-> <<>>],
    [null |-> FALSE, has |-> TRUE,  revenue |-> <<>>],
    [null |-> FALSE, has |-> TRUE,  revenue |-> UsdAbbrev] }

\* Math.pow(2, attempt) * 1000, with the delay that starts at one second
delayFromOneSecond(n) == (2 ^ (n - 1)) * 1000

delay(n) == (2 ^ n) * 1000

\* (i / (outputRows.length - 1)) * 100 as a fraction, and the same with the
\* header counted
progressOverLength(k, n) == [num |-> k * 100, den |-> n]

progressOf(k, n) == [num |-> k * 100, den |-> n - 1]

\* const outputRows = [...rows]: a write to outputRows leaves rows as it is;
\* and the same without the copy
rowsAliased(given, out) == out

rowsAfterWrite(given, out) == given

\* scrapeUrlForRevenue without its catch
scrapeSettleNoCatch(r) ==
  IF r.threw
  THEN [rejected |-> TRUE, value |-> <<>>]
  ELSE IF r.body.null \/ ~r.body.has \/ r.body.revenue = <<>>
       THEN [rejected |-> FALSE, value |-> NotFound]
       ELSE [rejected |-> FALSE, value |-> r.body.revenue]

\* how scrapeUrlForRevenue settles once makeRequestWithRetry has thrown or
\* returned a body: the catch turns a throw, also that of reading .revenue
\* of null, into "Not Found"
scrapeSettle(r) ==
  IF r.threw \/ r.body.null
  THEN [rejected |-> FALSE, value |-> NotFound]
  ELSE IF ~r.body.has \/ r.body.revenue = <<>>
       THEN [rejected |-> FALSE, value |-> NotFound]
       ELSE [rejected |-> FALSE, value |-> r.body.revenue]

InitBatch ==
  /\ ExtractOff
  /\ CsvOff
  /\ PageOff
  /\ bpc = "begin"
  /\ rows \in Tables
  /\ outputRows = <<>>
  /\ rowIndex = 0
  /\ requestUrl = <<>>
  /\ attempt = 0
  /\ sleeps = <<>>
  /\ fetchLog = <<>>
  /\ lastScrape = NoScrape
  /\ rowLog = <<>>
  /\ progressLog = <<>>
  /\ inFlight = 0

\* the copy and the header cell
Begin ==
  /\ bpc = "begin"
  /\ LET out == IF Len(rows) > 0
                THEN [rows EXCEPT ![1] = Append(@, WebCompanyRevenue)]
                ELSE rows
     IN  /\ outputRows' = out
         /\ rows' = rowsAfterWrite(rows, out)
         /\ bpc' = IF 1 < Len(out) THEN "row" ELSE "returned"
  /\ rowIndex' = 1
  /\ UNCHANGED <<requestUrl, attempt, sleeps, fetchLog, lastScrape, rowLog,
                 progressLog, inFlight>>
  /\ UNCHANGED besideBatch

\* the end of the loop body for row rowIndex: the cell is appended, i++
RowEnds(thrower, got, cell) ==
  /\ outputRows' = [outputRows EXCEPT ![rowIndex + 1] = Append(@, cell)]
  /\ rows' = rowsAfterWrite(rows, outputRows')
  /\ rowLog' = Append(rowLog, [threw |-> thrower # "none", by |-> thrower, revenue |-> got])
  /\ rowIndex' = rowIndex + 1
  /\ bpc' = IF rowIndex + 1 < Len(outputRows) THEN "row" ELSE "returned"

\* scrapeUrlForRevenue settles and the loop body goes on from its await
ScrapeSettles(r) ==
  LET sc == scrapeSettle(r)
  IN  /\ lastScrape' = [settled |-> TRUE, rejected |-> sc.rejected,
                         value |-> sc.value, threw |-> r.threw, body |-> r.body]
      /\ inFlight' = inFlight - 1
      /\ IF sc.rejected
         THEN RowEnds("scrapeUrlForRevenue", <<>>, NotFound)
         ELSE RowEnds("none", sc.value, formatCurrencyToUSD(sc.value))

\* the loop body up to its await: onProgress (which the caller supplies and
\* which may throw), then the call of scrapeUrlForRevenue and, in it, of
\* makeRequestWithRetry
RowStart ==
  /\ bpc = "row"
  /\ LET url == outputRows[rowIndex + 1][1]
     IN  /\ progressLog' =
               Append(progressLog,
                      [progress  |-> progressOf(rowIndex, Len(outputRows)),
                       url       |-> url,
                       processed |-> rowIndex,
                       handled   |-> Len(rowLog),
                       inFlight  |-> inFlight])
         /\ \E throws \in BOOLEAN :
               IF throws
               THEN /\ RowEnds("onProgress", <<>>, NotFound)
                    /\ UNCHANGED <<requestUrl, attempt, sleeps, fetchLog,
                                   lastScrape, inFlight>>
               ELSE /\ requestUrl' = IF startsWith(url, Http) THEN url ELSE Https \o url
                    /\ attempt' = 0
                    /\ sleeps' = <<>>
                    /\ fetchLog' = <<>>
                    /\ lastScrape' = NoScrape
                    /\ inFlight' = inFlight + 1
                    /\ bpc' = "attempt"
                    /\ UNCHANGED <<rows, outputRows, rowIndex, rowLog>>
  /\ UNCHANGED besideBatch

\* the head of the try block: the backoff sleep, or at once the fetch
Attempt ==
  /\ bpc = "attempt"
  /\ IF attempt > 0
     THEN /\ sleeps' = Append(sleeps, delay(attempt))
          /\ bpc' = "sleeping"
          /\ UNCHANGED fetchLog
     ELSE /\ fetchLog' = Append(fetchLog, "pending")
          /\ bpc' = "fetching"
          /\ UNCHANGED sleeps
  /\ UNCHANGED <<rows, outputRows, rowIndex, requestUrl, attempt, lastScrape,
                 rowLog, progressLog, inFlight>>
  /\ UNCHANGED besideBatch

\* the sleep is over: the fetch
Wake ==
  /\ bpc = "sleeping"
  /\ fetchLog' = Append(fetchLog, "pending")
  /\ bpc' = "fetching"
  /\ UNCHANGED <<rows, outputRows, rowIndex, requestUrl, attempt, sleeps,
                 lastScrape, rowLog, progressLog, inFlight>>
  /\ UNCHANGED besideBatch

\* the catch block: the last attempt throws on, an earlier one goes round
AttemptFails(how) ==
  /\ fetchLog' = [fetchLog EXCEPT ![Len(fetchLog)] = how]
  /\ IF attempt = maxRetries - 1
     THEN /\ ScrapeSettles([threw |-> TRUE, body |-> NoBody])
          /\ UNCHANGED <<requestUrl, attempt, sleeps, progressLog>>
     ELSE /\ attempt' = attempt + 1
          /\ bpc' = "attempt"
          /\ UNCHANGED <<rows, outputRows, rowIndex, requestUrl, sleeps,
                         lastScrape, rowLog, progressLog, inFlight>>

\* the fetch settles: it rejects, or answers with a status
FetchSettles ==
  /\ bpc = "fetching"
  /\ \E how \in {"network", "status", "ok"} :
        IF how = "ok"
        THEN /\ bpc' = "json"
             /\ UNCHANGED <<rows, outputRows, rowIndex, requestUrl, attempt,
                            sleeps, fetchLog, lastScrape, rowLog, progressLog,
                            inFlight>>
        ELSE AttemptFails(how)
  /\ UNCHANGED besideBatch

\* response.json() settles: it rejects, or gives the body
JsonSettles ==
  /\ bpc = "json"
  /\ \/ AttemptFails("json")
     \/ \E body \in Bodies :
           /\ fetchLog' = [fetchLog EXCEPT ![Len(fetchLog)] = "ok"]
           /\ ScrapeSettles([threw |-> FALSE, body |-> body])
           /\ UNCHANGED <<requestUrl, attempt, sleeps, progressLog>>
  /\ UNCHANGED besideBatch

NextBatch == Begin \/ RowStart \/ Attempt \/ Wake \/ FetchSettles \/ JsonSettles

SpecBatch == InitBatch /\ [][NextBatch]_vars

\* the steps the page runs by itself are taken; whether the backend answers
\* is up to the backend
SpecBatchFair ==
  SpecBatch /\ WF_vars(Begin) /\ WF_vars(RowStart) /\ WF_vars(Attempt) /\ WF_vars(Wake)

-----------------------------------------------------------------------------
(* toCSV and parseCSV *)

MaxCsvRows == 2
MaxCsvCols == 2

Quote == "\""

\* the characters String.prototype.trim takes off, as far as they occur here
WhiteSpace == {" ", "\t", "\n", "\r"}

RECURSIVE trimStart(_)
trimStart(s) ==
  IF s # <<>> /\ Head(s) \in WhiteSpace THEN trimStart(Tail(s)) ELSE s

RECURSIVE trimEnd(_)
trimEnd(s) ==
  IF s # <<>> /\ s[Len(s)] \in WhiteSpace THEN trimEnd(SubSeq(s, 1, Len(s) - 1)) ELSE s

trim(s) == trimEnd(trimStart(s))

\* the scanner's state before the first character
ScanStart ==
  [rows |-> <<>>, currentRow |-> <<>>, currentValue |-> <<>>, inQuotes |-> FALSE]

\* a row is kept when some value of it is not empty
pushRow(rs, row) ==
  IF \E k \in 1..Len(row) : Len(row[k]) > 0 THEN Append(rs, row) ELSE rs

\* the loop of parseCSV from the 1-based position k on, and what follows it
RECURSIVE scan(_, _, _)
scan(content, k, st) ==
  IF k > Len(content)
  THEN IF Len(st.currentValue) > 0 \/ Len(st.currentRow) > 0
       THEN pushRow(st.rows, Append(st.currentRow, trim(st.currentValue)))
       ELSE st.rows
  ELSE LET char     == content[k]
           nextChar == IF k < Len(content) THEN content[k + 1] ELSE ""
       IN  IF char = Quote
           THEN IF st.inQuotes /\ nextChar = Quote
                THEN scan(content, k + 2,
                          [st EXCEPT !.currentValue = Append(@, Quote)])
                ELSE scan(content, k + 1, [st EXCEPT !.inQuotes = ~@])
           ELSE IF char = "," /\ ~st.inQuotes
           THEN scan(content, k + 1,
                     [st EXCEPT !.currentRow = Append(@, trim(st.currentValue)),
                                !.currentValue = <<>>])
           ELSE IF (char = "\n" \/ char = "\r") /\ ~st.inQuotes
           THEN LET ended ==
                      IF Len(st.currentValue) > 0 \/ Len(st.currentRow) > 0
                      THEN [st EXCEPT
                              !.rows = pushRow(@, Append(st.currentRow,
                                                         trim(st.currentValue))),
                              !.currentRow = <<>>,
                              !.currentValue = <<>>]
                      ELSE st
                IN  scan(content,
                         IF char = "\r" /\ nextChar = "\n" THEN k + 2 ELSE k + 1,
                         ended)
           ELSE scan(content, k + 1, [st EXCEPT !.currentValue = Append(@, char)])

parseCSV(content) == scan(content, 1, ScanStart)

\* value.replace(/"/g, '""'), and the same leaving the quotes single
RECURSIVE doubleQuotes(_)
doubleQuotes(s) ==
  IF s = <<>> THEN <<>>
  ELSE (IF Head(s) = Quote THEN <<Quote, Quote>> ELSE <<Head(s)>>)
          \o doubleQuotes(Tail(s))

\* toCSV's cell without doubling the quotes inside it
quotedAsIs(v) ==
  IF \E k \in 1..Len(v) : v[k] \in {",", Quote, "\n", "\r"}
  THEN <<Quote>> \o v \o <<Quote>>
  ELSE v

\* what toCSV writes for one value
quoted(v) ==
  IF \E k \in 1..Len(v) : v[k] \in {",", Quote, "\n", "\r"}
  THEN <<Quote>> \o doubleQuotes(v) \o <<Quote>>
  ELSE v

\* Array.prototype.join
RECURSIVE join(_, _)
join(parts, sep) ==
  IF parts = <<>> THEN <<>>
  ELSE IF Len(parts) = 1 THEN parts[1]
  ELSE parts[1] \o sep \o join(Tail(parts), sep)

toCSV(rs) ==
  join([r \in 1..Len(rs) |->
          join([c \in 1..Len(rs[r]) |-> quoted(rs[r][c])], <<",">>)],
       <<"\n">>)

\* the values tables are made of: empty, plain, with a comma, with quotes,
\* with a line break inside, with a leading space
CsvCells ==
  { <<>>, <<"a">>, <<"b", ",">>, <<Quote, Quote>>, <<"a", "\r", "\n", "b">>,
    <<" ", "a">> }

CsvRows == UNION { [1..n -> CsvCells] : n \in 1..MaxCsvCols }

CsvTables == UNION { [1..n -> CsvRows] : n \in 0..MaxCsvRows }

InitCsv ==
  /\ ExtractOff
  /\ BatchOff
  /\ PageOff
  /\ cpc = "table"
  /\ table \in CsvTables
  /\ csvText = <<>>
  /\ parsed = <<>>

WriteCsv ==
  /\ cpc = "table"
  /\ csvText' = toCSV(table)
  /\ cpc' = "text"
  /\ UNCHANGED <<table, parsed>>
  /\ UNCHANGED besideCsv

ReadCsv ==
  /\ cpc = "text"
  /\ parsed' = parseCSV(csvText)
  /\ cpc' = "parsed"
  /\ UNCHANGED <<table, csvText>>
  /\ UNCHANGED besideCsv

NextCsv == WriteCsv \/ ReadCsv

SpecCsv == InitCsv /\ [][NextCsv]_vars

-----------------------------------------------------------------------------
(* The Index page: handleFileSelected, handleProcess, handleDownload and    *)
(* the two buttons.  A scrape is one step here: what happens inside it      *)
(* (SpecBatch) touches no state of the page.                                *)

MaxRuns == 2

Runs == 1..MaxRuns

\* the files the user can pick, by name, and what csvFile.text() gives
FileNames == {"header.csv", "one.csv", "two.csv"}

FileText(f) ==
  CASE f = "header.csv" -> <<"u", "r", "l">>
    [] f = "one.csv"    -> <<"u", "r", "l", "\n", "a", ".", "c", "o">>
    [] f = "two.csv"    -> <<"u", "r", "l", "\r", "\n", "a", ".", "c", "o", "\n",
                             "b", ".", "c", "o", "\n">>

\* what a scrape can resolve to
PageRevenues == {NotFound, UsdAbbrev}

FreeRun == [at |-> "free", file |-> "none", rows |-> <<>>, out |-> <<>>, k |-> 0]

TooFewRows == "CSV file doesn't contain enough data or is improperly formatted"

\* rows.length < 2, and the same test with 1
tooShortBelowOne(rs) == Len(rs) < 1

tooShort(rs) == Len(rs) < 2

\* the preview rows handleProcess builds from the enriched table
resultData(enriched) ==
  [n \in 1..(Len(enriched) - 1) |->
     LET row  == enriched[n + 1]
         last == row[Len(row)]
     IN  [url |-> row[1], revenue |-> IF last = <<>> THEN NotFound ELSE last]]

InitPage ==
  /\ ExtractOff
  /\ BatchOff
  /\ CsvOff
  /\ status = "idle"
  /\ progress = [num |-> 0, den |-> 1]
  /\ currentUrl = <<>>
  /\ csvFile = "none"
  /\ processedUrls = 0
  /\ totalUrls = 0
  /\ results = <<>>
  /\ processedData = <<>>
  /\ error = ""
  /\ runs = [r \in Runs |-> FreeRun]
  /\ lastDownload = [clicked |-> FALSE, data |-> <<>>, csv |-> <<>>]

\* handleFileSelected: FileUpload hands over a file whenever the user picks one
SelectFile(f) ==
  /\ csvFile' = f
  /\ status' = "idle"
  /\ progress' = [num |-> 0, den |-> 1]
  /\ results' = <<>>
  /\ processedData' = <<>>
  /\ error' = ""
  /\ UNCHANGED <<currentUrl, processedUrls, totalUrls, runs, lastDownload>>
  /\ UNCHANGED besidePage

\* a click on Process URLs, which is disabled without a file and while
\* status is "processing": handleProcess up to its first await
ClickProcess(r) ==
  /\ csvFile # "none"
  /\ status # "processing"
  /\ runs[r].at = "free"
  /\ \A q \in Runs : q < r => runs[q].at # "free"
  /\ status' = "processing"
  /\ progress' = [num |-> 0, den |-> 1]
  /\ currentUrl' = <<>>
  /\ processedUrls' = 0
  /\ results' = <<>>
  /\ error' = ""
  /\ runs' = [runs EXCEPT ![r] = [FreeRun EXCEPT !.at = "reading", !.file = csvFile]]
  /\ UNCHANGED <<csvFile, totalUrls, processedData, lastDownload>>
  /\ UNCHANGED besidePage

\* the onProgress callback handleProcess passes, called for row k of n rows
OnProgress(r, out, k) ==
  /\ progress' = progressOf(k, Len(out))
  /\ currentUrl' = out[k + 1][1]
  /\ processedUrls' = k

\* processCSVData has returned: the rest of handleProcess's try block
Finish(r, out) ==
  /\ processedData' = out
  /\ results' = resultData(out)
  /\ status' = "completed"
  /\ runs' = [runs EXCEPT ![r] = [@ EXCEPT !.out = out, !.k = Len(out), !.at = "over"]]

\* processCSVData's loop at row k: onProgress and the scrape, or the return
RowOrFinish(r, rs, out, k) ==
  IF k < Len(out)
  THEN /\ OnProgress(r, out, k)
       /\ runs' = [runs EXCEPT ![r] =
                     [at |-> "scraping", file |-> @.file, rows |-> rs,
                      out |-> out, k |-> k]]
       /\ UNCHANGED <<status, results, processedData>>
  ELSE /\ Finish(r, out)
       /\ UNCHANGED <<progress, currentUrl, processedUrls>>

\* csvFile.text() settles: the catch, or parseCSV, the row count test and
\* processCSVData up to its first await
ReadSettles(r) ==
  /\ runs[r].at = "reading"
  /\ \E readFails \in BOOLEAN :
        LET rs  == parseCSV(FileText(runs[r].file))
            out == IF Len(rs) > 0
                   THEN [rs EXCEPT ![1] = Append(@, WebCompanyRevenue)]
                   ELSE rs
        IN  IF readFails \/ tooShort(rs)
            THEN /\ status' = "error"
                 /\ error' = IF readFails THEN "read" ELSE TooFewRows
                 /\ runs' = [runs EXCEPT ![r].at = "over"]
                 /\ UNCHANGED <<progress, currentUrl, processedUrls, totalUrls,
                                results, processedData>>
            ELSE /\ totalUrls' = Len(rs) - 1
                 /\ RowOrFinish(r, rs, out, 1)
                 /\ UNCHANGED error
  /\ UNCHANGED <<csvFile, lastDownload>>
  /\ UNCHANGED besidePage

\* the scrape of row k settles: the cell is appended; then the next row's
\* onProgress and scrape, or after the last row the rest of handleProcess
ScrapeDone(r) ==
  /\ runs[r].at = "scraping"
  /\ \E got \in PageRevenues :
        LET k   == runs[r].k
            out == [runs[r].out EXCEPT ![k + 1] = Append(@, formatCurrencyToUSD(got))]
        IN  RowOrFinish(r, runs[r].rows, out, k + 1)
  /\ UNCHANGED <<csvFile, totalUrls, error, lastDownload>>
  /\ UNCHANGED besidePage

\* a click on Download Enriched CSV, which is enabled in status "completed":
\* handleDownload, with downloadCSV's toCSV when there is data
ClickDownload ==
  /\ status = "completed"
  /\ lastDownload' =
        [clicked |-> TRUE, data |-> processedData,
         csv |-> IF Len(processedData) > 0 THEN toCSV(processedData) ELSE <<>>]
  /\ UNCHANGED <<status, progress, currentUrl, csvFile, processedUrls,
                 totalUrls, results, processedData, error, runs>>
  /\ UNCHANGED besidePage

NextPage ==
  \/ \E f \in FileNames : SelectFile(f)
  \/ \E r \in Runs : ClickProcess(r)
  \/ \E r \in Runs : ReadSettles(r)
  \/ \E r \in Runs : ScrapeDone(r)
  \/ ClickDownload

SpecPage == InitPage /\ [][NextPage]_vars

-----------------------------------------------------------------------------
(* What the claims say, stated apart from the code's own operators *)

\* a + b
RECURSIVE AddAt(_, _, _, _)
AddAt(a, b, k, carry) ==
  IF k = 0 THEN IF carry = 0 THEN <<>> ELSE <<carry>>
  ELSE LET sum == a[k] + b[k] + carry
       IN  AddAt(a, b, k - 1, sum \div 10) \o <<sum % 10>>

Add(a, b) ==
  LET n == Max2(Len(a), Len(b))
  IN  Trim(AddAt(Zeros(n - Len(a)) \o a, Zeros(n - Len(b)) \o b, n, 0))

LessEq(a, b) == ~Less(b, a)

\* whether the whole number n is a whole number nearest to (num / den) * y / 10^f
Nearest(n, num, den, y, f) ==
  LET a == MulSmall(Trim(n \o Zeros(f)), 2 * den)
      b == MulSmall(y, 2 * num)
      c == MulSmall(<<1>> \o Zeros(f), den)
  IN  LessEq(a, Add(b, c)) /\ LessEq(b, Add(a, c))

\* ^\$-?[\d,]+$
MatchesUSDPattern(s) ==
  /\ Len(s) >= 2
  /\ s[1] = "$"
  /\ LET from == IF s[2] = "-" THEN 3 ELSE 2
     IN  /\ from <= Len(s)
         /\ \A k \in from..Len(s) : s[k] \in DigitChars \cup {","}

\* '$', then digits in groups of three divided by commas, no leading zero
IsNormalizedUSD(s) ==
  /\ Len(s) >= 2
  /\ s[1] = "$"
  /\ LET body == Tail(s)
         n    == Len(body)
     IN  /\ \A k \in 1..n :
               IF (n - k + 1) % 4 = 0 THEN body[k] = "," ELSE body[k] \in DigitChars
         /\ body[1] = "0" => n = 1

\* the whole number a normalized USD string shows
AmountShown(s) == Trim(DigitVals(SelectSeq(Tail(s), LAMBDA c : c \in DigitChars)))

\* the number a display string holds: its leftmost run of digits, commas and
\* periods, when that is a decimal numeral (some digit, at most one period);
\* y its digits with the commas and the period left out, f the number of
\* digits after the period
ReadAmount(s) ==
  LET starts == {p \in 1..Len(s) : IsAmountChar(s[p])}
      p   == Min(starts)
      q   == AmountEnd(s, p)
      tok == SubSeq(s, p, q - 1)
      dot == {k \in 1..Len(tok) : tok[k] = "."}
      digs == SelectSeq(tok, LAMBDA c : c \in DigitChars)
      after == IF dot = {} THEN <<>>
               ELSE SelectSeq(SubSeq(tok, Min(dot) + 1, Len(tok)),
                              LAMBDA c : c \in DigitChars)
      r   == SpaceEnd(s, q)
  IN  IF starts = {} THEN [plain |-> FALSE]
      ELSE [plain |-> digs # <<>> /\ Cardinality(dot) <= 1,
            y     |-> Trim(DigitVals(digs)),
            f     |-> Len(after),
            next  |-> IF r <= Len(s) THEN LowerChar(s[r]) ELSE ""]

\* the power of ten the scale after the number stands for
ScaleExponent(c) ==
  CASE c = "m" -> 6 [] c = "b" -> 9 [] c = "t" -> 12 [] OTHER -> 0

\* the amount times its scale: digits y and f digits after the point
ReadScaled(s) ==
  LET a == ReadAmount(s)
      k == ScaleExponent(a.next)
  IN  [y |-> Trim(a.y \o Zeros(Max2(0, k - a.f))), f |-> Max2(0, a.f - k)]

\* whether the scaled amount is below 2^52: up to there every value on the way
\* to the result is below 2^53 and a double holds its whole dollars exactly
InExactRange(s) ==
  LET x == ReadScaled(s)
      whole == IF Len(x.y) > x.f THEN SubSeq(x.y, 1, Len(x.y) - x.f) ELSE <<0>>
  IN  Less(MulSmall(whole, 2), Two53)

HasSymbol(s, c) == \E k \in 1..Len(s) : s[k] = c

\* the rate the claim gives a display string, as num / den
ClaimedRate(s) ==
  IF HasSymbol(s, EUR) THEN [num |-> 11, den |-> 10]
  ELSE IF HasSymbol(s, GBP) THEN [num |-> 13, den |-> 10]
  ELSE IF HasSymbol(s, JPY) THEN [num |-> 1, den |-> 150]
  ELSE [num |-> 1, den |-> 1]

\* the first call on a display string has returned
Normalized == pc = "format" /\ calls = 1

\* extractRevenueFigure has returned and nothing was formatted yet
Extracted == pc = "format" /\ calls = 0 /\ text # <<>>

\* whether pattern k matches the text and its leftmost match passes the gate
Accepts(s, k) ==
  LET m == match(s, monetaryPatterns[k]) IN m.found /\ gate(s, m)

-----------------------------------------------------------------------------
(* C1 *)

\* C1: whatever the text, formatCurrencyToUSD(extractRevenueFigure(text)) is
\* "Not Found" or matches ^\$-?[\d,]+$.  The code breaks this: a matched
\* amount made only of commas and periods is formatted as "$NaN".
C1_OutputContract ==
  (pc = "format" /\ calls >= 1 /\ text # <<>>) =>
     (value = NotFound \/ MatchesUSDPattern(value))

(* C2 *)

\* C2: formatCurrencyToUSD returns its input unchanged when no numeric value
\* can be parsed from it (the input holds no digit).  The code breaks this:
\* a period or comma alone is taken for a number and formatted as "$NaN".
C2_UnparsedUnchanged ==
  (Normalized /\ ~\E k \in 1..Len(figure) : figure[k] \in DigitChars) =>
     value = figure

(* C3 *)

\* C3: formatCurrencyToUSD("Not Found") returns "Not Found" from its first
\* branch, before any match, scaling or conversion, however often it is
\* applied again.
C3_PassThrough ==
  (pc = "format" /\ figure = NotFound) =>
     (value = NotFound /\ path \in {"none", "sentinel"})

C3_Witness ==
  figure = NotFound /\ text = <<>> /\ calls = MaxCalls /\ path = "sentinel"

(* C4 *)

\* C4: the scaled amount is multiplied by 1.1 when the input holds a euro
\* sign, else by 1.3 when it holds a pound sign, else divided by 150 when it
\* holds a yen sign, else left as it is, and the result is shown as whole
\* dollars (checked where doubles are exact); with the three examples of
\* the claim.
C4_Conversion ==
  /\ (Normalized /\ text = <<>> /\ ReadAmount(figure).plain /\ InExactRange(figure)) =>
        /\ IsNormalizedUSD(value)
        /\ LET r == ClaimedRate(figure)
               x == ReadScaled(figure)
           IN  Nearest(AmountShown(value), r.num, r.den, x.y, x.f)
  /\ (Normalized /\ figure = <<EUR, "1", "0", "0", " ", "m", "i", "l", "l", "i", "o", "n">>) => value = <<"$", "1", "1", "0", ",", "0", "0", "0", ",", "0", "0", "0">>
  /\ (Normalized /\ figure = <<GBP, "1", "0", "0", " ", "m", "i", "l", "l", "i", "o", "n">>) => value = <<"$", "1", "3", "0", ",", "0", "0", "0", ",", "0", "0", "0">>
  /\ (Normalized /\ figure = <<JPY, "1", "5", "0", "0", "0", " ", "m", "i", "l", "l", "i", "o", "n">>) => value = <<"$", "1", "0", "0", ",", "0", "0", "0", ",", "0", "0", "0">>

C4_Witness ==
  /\ Normalized
  /\ figure = <<GBP, EUR, "1", "5">>
  /\ value = <<"$", "1", "7">>

(* C5 *)

\* C5: without a foreign currency sign, the number (commas stripped) is
\* multiplied by 10^6 for million or m, 10^9 for billion or b, 10^12 for
\* trillion or t in any letter case, by 1 without a scale, rounded to whole
\* dollars and grouped by thousands (checked where doubles are exact); with
\* the two examples of the claim.
C5_Scale ==
  /\ (/\ Normalized
      /\ text = <<>>
      /\ ReadAmount(figure).plain
      /\ InExactRange(figure)
      /\ ~HasSymbol(figure, EUR) /\ ~HasSymbol(figure, GBP) /\ ~HasSymbol(figure, JPY)) =>
        /\ IsNormalizedUSD(value)
        /\ LET a == ReadAmount(figure)
               k == ScaleExponent(a.next)
           IN  Nearest(AmountShown(value), 1, 1,
                       Trim(a.y \o Zeros(Max2(0, k - a.f))), Max2(0, a.f - k))
  /\ (Normalized /\ figure = <<"$", "1", " ", "m", "i", "l", "l", "i", "o", "n">>) => value = <<"$", "1", ",", "0", "0", "0", ",", "0", "0", "0">>
  /\ (Normalized /\ figure = <<"$", "1", " ", "b", "i", "l", "l", "i", "o", "n">>) => value = <<"$", "1", ",", "0", "0", "0", ",", "0", "0", "0", ",", "0", "0", "0">>

C5_Witness ==
  /\ Normalized
  /\ figure = <<"$", "1", ",", "5", "T">>
  /\ value = <<"$", "1", "5", ",", "0", "0", "0", ",", "0", "0", "0", ",", "0", "0", "0", ",", "0", "0", "0">>

(* C6 *)

\* C6: formatCurrencyToUSD leaves every normalized USD string ('$', digits
\* grouped by thousands, no scale word, no decimals) unchanged.  The code
\* breaks this: the amount goes through a double, and a normalized string
\* whose amount no double holds comes back with other digits.
C6_Idempotent ==
  [][(pc = "format" /\ calls' = calls + 1 /\ IsNormalizedUSD(value)) => value' = value]_vars

(* C7 *)

\* C7 as claimed: once a pattern has matched and its match has failed the
\* gate, no later pattern decides: the result is "Not Found" or the override.
C7_Original ==
  (Extracted /\ rejected # {}) => decided = 0

\* C7 as amended: a gate failure does not end the scan.  The patterns are
\* tried in list order and the figure is the leftmost match of the first
\* pattern whose match passes the gate, whether or not earlier patterns
\* matched and failed it; the result is "Not Found" or the override only
\* when no pattern's match passes the gate.
C7_Fallback ==
  Extracted =>
     /\ \A k \in 1..Len(monetaryPatterns) :
           /\ k < decided => ~Accepts(text, k)
           /\ k = decided => Accepts(text, k)
           /\ decided = 0 => ~Accepts(text, k)
           /\ k \in rejected <=>
                 /\ decided = 0 \/ k < decided
                 /\ match(text, monetaryPatterns[k]).found
     /\ decided = 0 => figure \in {NotFound, UnityFigure}

C7_Witness ==
  /\ Extracted
  /\ rejected # {}
  /\ decided # 0
  /\ figure # NotFound

(* C8 *)

\* the patterns by what they are, not by where they stand in the list
UsdForm     == Pattern(<<USD>>, ScaleAlts, <<>>)
EurForm     == Pattern(<<EUR>>, ScaleAlts, <<>>)
GbpForm     == Pattern(<<GBP>>, ScaleAlts, <<>>)
JpyForm     == Pattern(<<JPY>>, ScaleAlts, <<>>)
DollarsForm == Pattern(<<>>, FullScaleAlts, DollarsOrUsd)
TrailingForm == Pattern(<<>>, FullScaleAlts, InRevenue)

AcceptsForm(s, form) ==
  LET m == match(s, form) IN m.found /\ gate(s, m)

\* the first of $, euro, pound, yen that occurs in the text, if any
ClaimedPrefix(s) ==
  LET order   == <<USD, EUR, GBP, JPY>>
      present == {k \in 1..4 : HasSymbol(s, order[k])}
  IN  IF present = {} THEN <<>> ELSE <<order[Min(present)]>>

\* the figure made of the text's prefix and a match's amount and scale
FigureOf(s, m) == ClaimedPrefix(s) \o m.m1 \o <<" ">> \o toLowerCase(m.m2)

\* whether the form that decided comes before form f in the order given
DecidedBefore(order, f) ==
  \E a, b \in 1..Len(order) :
     a < b /\ order[a] = monetaryPatterns[decided] /\ order[b] = f

\* C8 as claimed: the euro form is tried before the dollars/usd form, so a
\* text with an accepted euro mention and an accepted "N million dollars"
\* mention (and no accepted $ mention) gives the euro mention's amount.
C8_Original ==
  (/\ Extracted
   /\ ~AcceptsForm(text, UsdForm)
   /\ AcceptsForm(text, EurForm)
   /\ AcceptsForm(text, DollarsForm)) =>
      figure = FigureOf(text, match(text, EurForm))

\* C8 as amended: the order is $, then the symbol-free dollars/usd form, then
\* euro, pound, yen, then the revenue phrases, and last the "in revenue"
\* form; a text with an accepted euro mention and an accepted "N million
\* dollars" mention (and no accepted $ mention) gives the amount and scale
\* of the "N million dollars" mention.
C8_Order ==
  LET order == <<UsdForm, DollarsForm, EurForm, GbpForm, JpyForm>>
  IN  Extracted =>
        /\ (/\ ~AcceptsForm(text, UsdForm)
            /\ AcceptsForm(text, EurForm)
            /\ AcceptsForm(text, DollarsForm)) =>
               /\ monetaryPatterns[decided] = DollarsForm
               /\ figure = FigureOf(text, match(text, DollarsForm))
        /\ decided # 0 =>
              /\ \A k \in 1..Len(order) :
                    \/ DecidedBefore(order, order[k])
                    \/ monetaryPatterns[decided] = order[k]
                    \/ ~AcceptsForm(text, order[k])
              /\ monetaryPatterns[decided] = TrailingForm =>
                    \A k \in 1..Len(monetaryPatterns) :
                       k # decided => ~Accepts(text, k)

C8_Witness ==
  /\ Extracted
  /\ monetaryPatterns[decided] = DollarsForm
  /\ AcceptsForm(text, EurForm)
  /\ figure # FigureOf(text, match(text, EurForm))

(* C9 *)

\* whether a keyword lies, in any letter case, within the 50 characters
\* before the match, the match and the 50 characters after it
KeywordNear(s, m) ==
  LET lo == Max2(0, m.index - 50)
      hi == Min2(Len(s), m.index + Len(m.m0) + 50)
  IN  \E k \in 1..Len(financialKeywords) :
         \E q \in lo..(hi - Len(financialKeywords[k])) :
            WordAt(s, q + 1, financialKeywords[k])

MentionsRevenue(s) ==
  \E q \in 1..Len(s) : WordAt(s, q, revenue)

\* C9: a match is returned only if a financial keyword lies in its window of
\* 50 characters either side or the text holds "revenue"; when no match of
\* any pattern has a keyword in its window and the text holds no "revenue",
\* no figure is returned.
C9_Gate ==
  Extracted =>
     /\ decided # 0 =>
           LET m == match(text, monetaryPatterns[decided])
           IN  KeywordNear(text, m) \/ MentionsRevenue(text)
     /\ (/\ ~MentionsRevenue(text)
         /\ \A k \in 1..Len(monetaryPatterns) :
               LET m == match(text, monetaryPatterns[k])
               IN  m.found => ~KeywordNear(text, m)) =>
           figure = NotFound

C9_Witness ==
  /\ Extracted
  /\ text = UsdAbbrev \o Filler(NearLen) \o Sales
  /\ decided # 0
  /\ figure = UsdAbbrev

(* C10 *)

CurrencySymbols == {USD, EUR, GBP, JPY}

\* C10: a figure returned from a pattern match is the first of $, euro,
\* pound, yen that occurs anywhere in the text (nothing if none does), then
\* the match's amount, a space and its scale, whichever pattern matched; it
\* holds at most one currency symbol.
C10_Prefix ==
  (Extracted /\ decided # 0) =>
     /\ figure = FigureOf(text, match(text, monetaryPatterns[decided]))
     /\ Cardinality({k \in 1..Len(figure) : figure[k] \in CurrencySymbols}) <= 1

C10_Witness ==
  /\ Extracted
  /\ monetaryPatterns[decided] = EurForm
  /\ figure[1] = USD

(* C11 *)

\* the match of a form that starts furthest left in the text
LeftmostMatch(s, form) ==
  LET starts == {p \in 1..Len(s) : MatchAt(form, s, p).found}
  IN  IF starts = {} THEN NoMatch
      ELSE MatchAt(form, s, CHOOSE p \in starts : \A q \in starts : p <= q)

\* the patterns, by list position, that match somewhere in the text
Matching(s) ==
  {k \in 1..Len(monetaryPatterns) : LeftmostMatch(s, monetaryPatterns[k]).found}

\* those whose leftmost match has a keyword near it or "revenue" in the text
MatchingInContext(s) ==
  {k \in Matching(s) :
      \/ KeywordNear(s, LeftmostMatch(s, monetaryPatterns[k]))
      \/ MentionsRevenue(s)}

\* C11 as claimed: a returned figure is that of the earliest pattern in the
\* list that matches the text.
C11_Original ==
  (Extracted /\ decided # 0) => decided = Min(Matching(text))

\* C11 as amended: a returned figure holds the amount and scale of the
\* leftmost match of the earliest pattern in the list whose leftmost match
\* passes the contextual gate, never those of a later match or a mix of
\* matches; "$472 million" followed by "$2.7 billion" gives "$472 million".
C11_FirstWins ==
  /\ (Extracted /\ decided # 0) =>
        /\ MatchingInContext(text) # {}
        /\ decided = Min(MatchingInContext(text))
        /\ figure = FigureOf(text, LeftmostMatch(text, monetaryPatterns[decided]))
  /\ (Extracted /\ MatchingInContext(text) # {}) => decided # 0
  /\ (Extracted /\ text = UsdMillion \o UsdBillion) =>
        figure = SubSeq(UsdMillion, 1, Len(UsdMillion) - 1)

C11_Witness ==
  /\ Extracted
  /\ text = UsdMillion \o UsdBillion
  /\ decided # 0
  /\ figure # SubSeq(UsdBillion, 1, Len(UsdBillion))

(* C12 *)

ScaleWords == {million, billion, trillion, <<"m">>, <<"b">>, <<"t">>}

\* an optional currency symbol, an amount token, one space, a lower-case scale
IsRawFigure(s) ==
  \E a \in 1..2 :
     /\ a = 2 => (Len(s) >= 1 /\ s[1] \in CurrencySymbols)
     /\ \E b \in (a + 1)..Len(s) :
           /\ \A k \in a..(b - 1) : s[k] \in DigitChars \cup {",", "."}
           /\ s[b] = " "
           /\ SubSeq(s, b + 1, Len(s)) \in ScaleWords

\* C12 as claimed: every value extractRevenueFigure returns other than
\* "Not Found" is an optional symbol, the amount token, a space and a
\* lower-case scale, on every return path.
C12_Original ==
  (Extracted /\ figure # NotFound) => IsRawFigure(figure)

\* C12 as amended: every value returned from a pattern match is an optional
\* single symbol, the amount token, one space and a lower-case scale; when no
\* match is accepted the value is "Not Found" or, by the name-based override,
\* the fixed string "Unity: $472 million (Q4 2024), $2.7 billion annual",
\* which is not of that shape.
C12_Shape ==
  Extracted =>
     /\ decided # 0 => IsRawFigure(figure)
     /\ decided = 0 =>
           \/ figure = NotFound
           \/ /\ figure = <<"U", "n", "i", "t", "y", ":", " ">> \o UsdMillion
                             \o <<"(", "Q", "4", " ", "2", "0", "2", "4", ")", ",", " ">>
                             \o UsdBillion \o <<" ", "a", "n", "n", "u", "a", "l">>
              /\ ~IsRawFigure(figure)

C12_Witness ==
  /\ Extracted
  /\ text = EurBillion
  /\ figure = <<EUR, "1", ".", "5", " ">> \o billion

(* C13 *)

FailedWays == {"network", "status", "json"}

\* C13: scrapeUrlForRevenue never rejects; when every attempt failed by a
\* network error, a status that is not 2xx or a body that is not JSON, and
\* when the answer has no revenue or an empty one, it resolves to
\* "Not Found"; processCSVData's catch never sees a throw of the scrape.
C13_FailureMapping ==
  /\ lastScrape.settled =>
        /\ ~lastScrape.rejected
        /\ (\A k \in 1..Len(fetchLog) : fetchLog[k] \in FailedWays) =>
              lastScrape.value = NotFound
        /\ (/\ ~lastScrape.threw
            /\ \/ lastScrape.body.null
               \/ ~lastScrape.body.has
               \/ lastScrape.body.revenue = <<>>) =>
              lastScrape.value = NotFound
  /\ \A k \in 1..Len(rowLog) : rowLog[k].by # "scrapeUrlForRevenue"

C13_Witness ==
  /\ lastScrape.settled
  /\ fetchLog = <<"network", "status", "json">>
  /\ lastScrape.value = NotFound
  /\ bpc = "returned"

(* C14 *)

\* C14: every scrapeUrlForRevenue call that was started settles, also when
\* the backend leaves a request without an answer, and so the run returns.
\* The code breaks this: fetch is called without a timeout or an abort
\* signal, and a request that is never answered is awaited for ever.
C14_Terminates ==
  (inFlight > 0) ~> (inFlight = 0 /\ lastScrape.settled)

(* C15 *)

\* the current makeRequestWithRetry call has ended
CallEnded == lastScrape.settled

\* C15: one makeRequestWithRetry call makes at most maxRetries (3) fetches,
\* one after the other; nothing is slept before the first, 2 s before the
\* second and 4 s before the third, each delay twice the one before; a
\* fetch that succeeds is the last one; after the last failed fetch the call
\* throws without another sleep.
C15_Backoff ==
  LET done == Len(fetchLog)
  IN  /\ done <= 3
      /\ \A k \in 1..done : fetchLog[k] = "pending" => k = done
      /\ \A k \in 1..done : fetchLog[k] = "ok" => k = done /\ CallEnded
      /\ Len(sleeps) <= 2
      /\ done > 0 /\ bpc # "sleeping" => Len(sleeps) = done - 1
      /\ bpc = "sleeping" => Len(sleeps) = done /\ fetchLog[done] \in FailedWays
      /\ Len(sleeps) >= 1 => sleeps[1] = 2000
      /\ Len(sleeps) >= 2 => sleeps[2] = 4000
      /\ \A k \in 2..Len(sleeps) : sleeps[k] = 2 * sleeps[k - 1]
      /\ (CallEnded /\ lastScrape.threw) =>
            /\ done = 3
            /\ \A k \in 1..done : fetchLog[k] \in FailedWays
            /\ sleeps = <<2000, 4000>>
      /\ (CallEnded /\ ~lastScrape.threw) => fetchLog[done] = "ok"

C15_Witness ==
  /\ CallEnded
  /\ lastScrape.threw
  /\ sleeps = <<2000, 4000>>
  /\ Len(fetchLog) = 3

(* C16 *)

\* whether fraction a is below fraction b
FractionLess(a, b) == a.num * b.den < b.num * a.den

\* C16: the data rows are handled in index order, one scrape at a time;
\* onProgress is called once per data row i, with i / (n - 1) * 100, the
\* row's first cell and i, when the rows before it have their result and
\* no scrape is running; the percentages rise and the last one is 100.
C16_Progress ==
  LET n == Len(rows)
  IN  /\ inFlight \in {0, 1}
      /\ Len(rowLog) <= Len(progressLog)
      /\ Len(progressLog) <= Len(rowLog) + 1
      /\ bpc \in {"attempt", "sleeping", "fetching", "json"} <=> inFlight = 1
      /\ inFlight = 1 => Len(progressLog) = Len(rowLog) + 1
      /\ \A k \in 1..Len(progressLog) :
            LET e == progressLog[k]
            IN  /\ k <= n - 1
                /\ e.processed = k
                /\ e.url = rows[k + 1][1]
                /\ e.progress.den > 0
                /\ e.progress.num * (n - 1) = k * 100 * e.progress.den
                /\ e.handled = k - 1
                /\ e.inFlight = 0
                /\ k > 1 => FractionLess(progressLog[k - 1].progress, e.progress)
      /\ \A k \in 1..Len(rowLog) : Len(outputRows[k + 1]) = Len(rows[k + 1]) + 1
      /\ \A k \in (Len(rowLog) + 2)..Len(outputRows) : outputRows[k] = rows[k]
      /\ (bpc = "returned" /\ n >= 2) =>
            /\ Len(progressLog) = n - 1
            /\ progressLog[n - 1].progress.num = 100 * progressLog[n - 1].progress.den

C16_Witness ==
  /\ bpc = "returned"
  /\ Len(progressLog) = MaxDataRows
  /\ \A k \in 1..Len(rowLog) : ~rowLog[k].threw

(* C17 *)

\* the returned table is the caller's with one cell more in every row
OneCellAppended ==
  /\ Len(outputRows) = Len(rows)
  /\ Len(rowLog) = Max2(0, Len(rows) - 1)
  /\ Len(rows) > 0 => outputRows[1] = rows[1] \o <<WebCompanyRevenue>>
  /\ \A k \in 2..Len(rows) :
        outputRows[k] =
           rows[k] \o << IF rowLog[k - 1].threw THEN NotFound
                         ELSE formatCurrencyToUSD(rowLog[k - 1].revenue) >>

RoundTripTable(t) ==
  \A r \in 1..Len(t) :
     /\ \A c \in 1..Len(t[r]) :
           t[r][c] # <<>> =>
              /\ t[r][c][1] \notin WhiteSpace
              /\ t[r][c][Len(t[r][c])] \notin WhiteSpace
     /\ \E c \in 1..Len(t[r]) : t[r][c] # <<>>

\* C20: for a table whose values have no white space at either end and
\* whose rows each hold a value that is not empty, parseCSV(toCSV(rows)) is
\* rows, also with commas, quotes and line breaks inside the values.
C20_RoundTrip ==
  (cpc = "parsed" /\ RoundTripTable(table)) => parsed = table

C20_Witness ==
  /\ cpc = "parsed"
  /\ table = << <<<<"a", "\r", "\n", "b">>, <<>>>>, <<<<Quote, Quote>>, <<"b", ",">>>> >>
  /\ parsed = table

(* C18 *)

InFlight == {r \in Runs : runs[r].at \in {"reading", "scraping"}}

\* C18: at most one handleProcess run is in flight on the page.  The code
\* breaks this: picking a file while a run is in flight sets status back to
\* "idle", which enables the Process button again.
C18_OneRun ==
  Cardinality(InFlight) <= 1

(* C19 *)

\* C19: whenever status is "completed", processedData holds a header row and
\* at least one data row and results holds one entry per data row; so
\* handleDownload, which can only be started in that status, never sees an
\* empty processedData.
C19_DownloadData ==
  /\ status = "completed" =>
        /\ Len(processedData) >= 2
        /\ Len(results) = Len(processedData) - 1
        /\ \A n \in 1..Len(results) : results[n].url = processedData[n + 1][1]
  /\ lastDownload.clicked => Len(lastDownload.data) >= 2

C19_Witness ==
  /\ status = "completed"
  /\ lastDownload.clicked
  /\ lastDownload.data = processedData
  /\ InFlight # {}

(* C21 *)

\* the forms that are not revenue phrases, in the order of monetaryPatterns
CoreForms == <<UsdForm, DollarsForm, EurForm, GbpForm, JpyForm, TrailingForm>>

\* list positions of the revenue-phrase patterns
PhrasePositions ==
  {k \in 1..Len(monetaryPatterns) :
      \A c \in 1..Len(CoreForms) : monetaryPatterns[k] # CoreForms[c]}

\* what the same loop returns when its list holds only the core forms
CoreFigure(s) ==
  LET ok == {c \in 1..Len(CoreForms) : AcceptsForm(s, CoreForms[c])}
  IN  IF ok = {} THEN afterLoop(s)
      ELSE display(s, match(s, CoreForms[Min(ok)]))

\* C21: the revenue-phrase patterns never decide the result: for every
\* text, extractRevenueFigure returns what an extractor whose list holds
\* only the $, dollars/usd, euro, pound, yen and trailing "in revenue"
\* patterns returns, and the deciding pattern is never a revenue phrase.
C21_PhrasesNeverDecide ==
  Extracted =>
     /\ decided \notin PhrasePositions
     /\ figure = CoreFigure(text)

\* a revenue phrase matches, the $ pattern's leftmost match is an earlier
\* figure with no keyword in its window, and that earlier figure is returned
C21_Witness ==
  /\ Extracted
  /\ \E k \in PhrasePositions : match(text, monetaryPatterns[k]).found
  /\ ~hasRevenueContext(text, match(text, UsdForm))
  /\ decided = 1
  /\ figure = UsdAbbrev
  /\ text # UsdAbbrev


(* C22 *)

FullScaleWords == {million, billion, trillion}
ScaleLetters   == {<<"m">>, <<"b">>, <<"t">>}

\* the scale token, lower-cased, of the leftmost match of pattern k
ScaleOf(s, k) == toLowerCase(LeftmostMatch(s, monetaryPatterns[k]).m2)

\* C22: the gate can reject only abbreviated-scale matches: a pattern whose
\* match has a full scale word (in any letter case) is never rejected,
\* whatever surrounds it, so the loop returns at that pattern or before it;
\* every rejected match has the single letter m, b or t as its scale.
C22_FullWordsPass ==
  Extracted =>
     /\ \A k \in rejected : ScaleOf(text, k) \in ScaleLetters
     /\ \A k \in Matching(text) :
           ScaleOf(text, k) \in FullScaleWords =>
              /\ k \notin rejected
              /\ decided # 0
              /\ decided <= k

\* "$5 m", rejected with no keyword in its window, then a "Billion" figure
\* accepted in a text with no other keyword and no "revenue"
C22_Witness ==
  /\ Extracted
  /\ text = UsdAbbrev \o Filler(FarLen) \o EurBillion
  /\ ~MentionsRevenue(text)
  /\ rejected = {1}
  /\ monetaryPatterns[decided] = EurForm
  /\ LeftmostMatch(text, EurForm).m2 = <<"B", "i", "l", "l", "i", "o", "n">>


=============================================================================
